---- MODULE Spec2Model ----
(***************************************************************************)
(* Layered-graph shortest-path re-ranking of molecular candidates          *)
(* (metabolite_identification_cls.py): the edge-weight function            *)
(* _weight_func_max, the dynamic programs shortest_path and                *)
(* shortest_path_exclude_candidates, and the top-k driver                  *)
(* perform_reranking_of_candidates.                                        *)
(*                                                                         *)
(* Numbers.  The program computes in floating point.  The model is fixed   *)
(* point: scores, order values (wtx), retention times and epsilon_rt are   *)
(* integers counting tenths (Unit), path lengths and edge weights are      *)
(* integers counting thousandths (Milli).  np.inf is the sentinel inf,     *)
(* np.nan the sentinel nan.  Python lists are functions over 0..n-1, so    *)
(* that indices read as in the source.                                     *)
(***************************************************************************)
EXTENDS Integers, Sequences, FiniteSets, TLC

(***************************************************************************)
(* Python lists, 0-based                                                   *)
(***************************************************************************)
len(l) == Cardinality(DOMAIN l)

EmptyList == << >>

\* a list given by a rule, evaluated once (f @@ f = f)
list(f) == f @@ f

append(l, x) == l @@ (len(l) :> x)

\* [x] * n
repeat(x, n) == list([i \in 0..(n - 1) |-> x])

\* list.reverse()
reverse(l) == list([i \in DOMAIN l |-> l[len(l) - 1 - i]])

(***************************************************************************)
(* Numbers                                                                 *)
(***************************************************************************)
\* one unit of the input data is 1/Unit; one unit of a path length 1/Milli
Unit == 10
Milli == 1000

\* np.inf (larger than every path length of the model), np.nan
inf == 100000000
nan == -2

\* float addition where one side may be np.inf
add(a, b) == IF a = inf \/ b = inf THEN inf ELSE a + b

\* np.minimum
minimum(a, b) == IF a <= b THEN a ELSE b

\* np.abs
abs(a) == IF a < 0 THEN -a ELSE a

\* np.sign, of a value in tenths: -1.0, 0.0 or 1.0
sign(a) == IF a > 0 THEN Unit ELSE IF a < 0 THEN -Unit ELSE 0

\* max (0, x)
max0(a) == IF a > 0 THEN a ELSE 0

\* np.log (penalty + 1) for a penalty of p tenths, in thousandths:
\* round (1000 * ln (1 + p / 10)), p = 0 .. 30
LogTable ==
  <<   0,   95,  182,  262,  336,  405,  470,  531,  588,  642,  693,
      742,  788,  833,  875,  916,  956,  993, 1030, 1065, 1099,
     1131, 1163, 1194, 1224, 1253, 1281, 1308, 1335, 1361, 1386 >>

log1p(p) == LogTable[p + 1]

(***************************************************************************)
(* _weight_func_max                                                        *)
(***************************************************************************)
\* order_delta with "<" for "<="
order_delta_strict(cand_data, t, i, tp1, j, epsilon_rt) ==
  IF abs(cand_data[t].rt_cand_list - cand_data[tp1].rt_cand_list) < epsilon_rt
    THEN 0
    ELSE cand_data[t].wtx[i] - cand_data[tp1].wtx[j]

\* order_delta with the two order values exchanged
order_delta_swapped(cand_data, t, i, tp1, j, epsilon_rt) ==
  IF abs(cand_data[t].rt_cand_list - cand_data[tp1].rt_cand_list) <= epsilon_rt
    THEN 0
    ELSE cand_data[tp1].wtx[j] - cand_data[t].wtx[i]

\* the order signal of the edge (t,i) -> (tp1,j), before use_sign: 0 when the
\* two retention times are at most epsilon_rt apart
order_delta(cand_data, t, i, tp1, j, epsilon_rt) ==
  IF abs(cand_data[t].rt_cand_list - cand_data[tp1].rt_cand_list) <= epsilon_rt
    THEN 0
    ELSE cand_data[t].wtx[i] - cand_data[tp1].wtx[j]

\* the penalty with abs (dW_tp1_j) for max (0, dW_tp1_j)
penalty_of_abs(dW_tp1_j, use_log) ==
  IF use_log THEN log1p(abs(dW_tp1_j))
             ELSE abs(dW_tp1_j) * (Milli \div Unit)

\* penalty = max (0, dW_tp1_j), log-transformed under use_log; in thousandths
penalty_of(dW_tp1_j, use_log) ==
  IF use_log THEN log1p(max0(dW_tp1_j))
             ELSE max0(dW_tp1_j) * (Milli \div Unit)

\* the four assertions on the keys of kwargs: TRUE when none fails
weight_func_asserts(kwargs) ==
  /\ "D" \in DOMAIN kwargs
  /\ "use_sign" \in DOMAIN kwargs
  /\ "epsilon_rt" \in DOMAIN kwargs
  /\ "use_log" \in DOMAIN kwargs

\* (edge weight in thousandths, order difference in tenths); u = (t,i), v = (tp1,j)
weight_func_max(cand_data, u, v, kwargs) ==
  LET D == kwargs.D
      use_sign == kwargs.use_sign
      epsilon_rt == kwargs.epsilon_rt
      use_log == kwargs.use_log
      t == u[1]
      i == u[2]
      tp1 == v[1]
      j == v[2]
      s_tp1_j == cand_data[tp1].iokrscores[j] * (Milli \div Unit)
      dW_0 == order_delta(cand_data, t, i, tp1, j, epsilon_rt)
      dW_tp1_j == IF use_sign THEN sign(dW_0) ELSE dW_0
      penalty == penalty_of(dW_tp1_j, use_log)
  IN  << (- s_tp1_j) + D * penalty, dW_tp1_j >>

(***************************************************************************)
(* shortest_path_exclude_candidates and shortest_path                      *)
(***************************************************************************)
\* the value of a weight function that was not given
None == "None"

\* the exception the call weight_fun (cand_data, u, v, **kwds_c) ends with, ""
\* when it returns: None is not callable, _weight_func_max asserts its keys
weight_fun_raises(weight_fun, kwds_c) ==
  IF weight_fun = None THEN "TypeError"
  ELSE IF ~weight_func_asserts(kwds_c) THEN "AssertionError"
  ELSE ""

\* is_sorted (l, ascending = False) of helper_cls
is_sorted_descending(l) == \A i \in DOMAIN l : (i + 1) \in DOMAIN l => l[i] >= l[i + 1]

\* the consistency checks without the one on the retention times
check_input_no_rt(cand_data, exclude_blocked_candidates, t, rt) ==
  \A n \in DOMAIN cand_data :
     /\ is_sorted_descending(cand_data[n].iokrscores)
     /\ exclude_blocked_candidates =>
          /\ "is_blocked" \in DOMAIN cand_data[n]
          /\ len(cand_data[n].is_blocked) = len(cand_data[n].iokrscores)

\* the consistency checks made under check_input: TRUE when no assertion fails
RECURSIVE check_input_passes(_, _, _, _)
check_input_passes(cand_data, exclude_blocked_candidates, t, rt) ==
  IF t >= len(cand_data) THEN TRUE
  ELSE /\ is_sorted_descending(cand_data[t].iokrscores)
       /\ cand_data[t].rt_cand_list >= rt
       /\ exclude_blocked_candidates =>
            /\ "is_blocked" \in DOMAIN cand_data[t]
            /\ len(cand_data[t].is_blocked) = len(cand_data[t].iokrscores)
       /\ check_input_passes(cand_data, exclude_blocked_candidates, t + 1,
                             cand_data[t].rt_cand_list)

\* kwds_c = copy.deepcopy (kwds); kwds_c["dW_path"] = dW_path: the copy refers
\* to the table of the call
with_dW_path(kwds) == ("dW_path" :> "dW_path") @@ kwds

\* number of candidates of layer t the forward pass looks at
n_cand(cand_data, t, cut_off_n_cand) ==
  minimum(len(cand_data[t].iokrscores), cut_off_n_cand)

\* the test without the switch exclude_blocked_candidates
is_excluded_unconditional(cand_data, exclude_blocked_candidates, t, i) ==
  cand_data[t].is_blocked[i]

\* "if exclude_blocked_candidates and cand_data[t]["is_blocked"][i]: continue"
is_excluded(cand_data, exclude_blocked_candidates, t, i) ==
  exclude_blocked_candidates /\ cand_data[t].is_blocked[i]

\* no comparison: the entry is always replaced
is_shorter_always(S_tp1_j, s_tp1_j) == TRUE

\* the comparison with ">=" for ">"
is_shorter_or_equal(S_tp1_j, s_tp1_j) == S_tp1_j >= s_tp1_j

\* "if S_path[tp1][j] > s_tp1_j"
is_shorter(S_tp1_j, s_tp1_j) == S_tp1_j > s_tp1_j

\* no table exists: the state of a call before "S_path = ..."
NoTables ==
  [ S_path |-> EmptyList, dW_path |-> EmptyList, parents |-> EmptyList, raised |-> "" ]

\* the tables before the forward pass: the row of the first layer
first_tables(cand_data) ==
  LET n_cand_first == len(cand_data[0].iokrscores)
  IN  [ S_path  |-> repeat(list([i \in 0..(n_cand_first - 1) |->
                              (- cand_data[0].iokrscores[i]) * (Milli \div Unit)]), 1),
        dW_path |-> repeat(repeat(0, n_cand_first), 1),
        parents |-> repeat(repeat(-1, n_cand_first), 1),
        raised  |-> "" ]

\* the rows appended for layer tp1 before it is relaxed
append_rows(tab, n_cand_tp1) ==
  [ S_path  |-> append(tab.S_path, repeat(inf, n_cand_tp1)),
    dW_path |-> append(tab.dW_path, repeat(-inf, n_cand_tp1)),
    parents |-> append(tab.parents, repeat(nan, n_cand_tp1)),
    raised  |-> tab.raised ]

\* one relaxation of the edge (t,i) -> (tp1,j); an exception of the weight
\* function leaves the tables as they are
relax(cand_data, weight_fun, kwds_c, tab, t, i, j) ==
  LET tp1 == t + 1
      w == weight_func_max(cand_data, <<t, i>>, <<tp1, j>>, kwds_c)
      s_update == w[1]
      dw_tp1_j == w[2]
      s_tp1_j == add(tab.S_path[t][i], s_update)
      exc == weight_fun_raises(weight_fun, kwds_c)
  IN  IF exc # ""
        THEN [tab EXCEPT !.raised = exc]
        ELSE IF is_shorter(tab.S_path[tp1][j], s_tp1_j)
          THEN [ S_path  |-> [tab.S_path EXCEPT ![tp1][j] = s_tp1_j],
                 dW_path |-> [tab.dW_path EXCEPT ![tp1][j] = tab.dW_path[t][i] + dw_tp1_j],
                 parents |-> [tab.parents EXCEPT ![tp1][j] = i],
                 raised  |-> "" ]
          ELSE tab

\* "for j in range (n_cand_tp1)", from j on
RECURSIVE loop_j(_, _, _, _, _, _, _, _, _)
loop_j(cand_data, weight_fun, kwds_c, exclude_blocked_candidates, tab, t, i, j, n_cand_tp1) ==
  IF j >= n_cand_tp1 \/ tab.raised # "" THEN tab
  ELSE IF is_excluded(cand_data, exclude_blocked_candidates, t + 1, j)
    THEN loop_j(cand_data, weight_fun, kwds_c, exclude_blocked_candidates, tab, t, i,
                j + 1, n_cand_tp1)
    ELSE loop_j(cand_data, weight_fun, kwds_c, exclude_blocked_candidates,
                relax(cand_data, weight_fun, kwds_c, tab, t, i, j), t, i, j + 1, n_cand_tp1)

\* "for i in range (n_cand_t)", from i on
RECURSIVE loop_i(_, _, _, _, _, _, _, _, _)
loop_i(cand_data, weight_fun, kwds_c, exclude_blocked_candidates, tab, t, i, n_cand_t, n_cand_tp1) ==
  IF i >= n_cand_t \/ tab.raised # "" THEN tab
  ELSE IF is_excluded(cand_data, exclude_blocked_candidates, t, i)
    THEN loop_i(cand_data, weight_fun, kwds_c, exclude_blocked_candidates, tab, t, i + 1,
                n_cand_t, n_cand_tp1)
    ELSE loop_i(cand_data, weight_fun, kwds_c, exclude_blocked_candidates,
                loop_j(cand_data, weight_fun, kwds_c, exclude_blocked_candidates, tab, t, i,
                       0, n_cand_tp1),
                t, i + 1, n_cand_t, n_cand_tp1)

\* "for t in range (n_layer - 1)", from t on
RECURSIVE loop_t(_, _, _, _, _, _, _)
loop_t(cand_data, weight_fun, kwds_c, cut_off_n_cand, exclude_blocked_candidates, tab, t) ==
  IF t >= len(cand_data) - 1 \/ tab.raised # "" THEN tab
  ELSE LET n_cand_t == n_cand(cand_data, t, cut_off_n_cand)
           n_cand_tp1 == n_cand(cand_data, t + 1, cut_off_n_cand)
       IN  loop_t(cand_data, weight_fun, kwds_c, cut_off_n_cand, exclude_blocked_candidates,
                  loop_i(cand_data, weight_fun, kwds_c, exclude_blocked_candidates,
                         append_rows(tab, n_cand_tp1), t, 0, n_cand_t, n_cand_tp1),
                  t + 1)

\* np.argmin that takes the last index of the smallest entry
argmin_last(l) ==
  CHOOSE j \in DOMAIN l :
    /\ \A m \in DOMAIN l : l[j] <= l[m]
    /\ \A m \in DOMAIN l : m > j => l[m] > l[j]

\* np.argmin: the first index of the smallest entry
argmin(l) ==
  CHOOSE j \in DOMAIN l :
    /\ \A m \in DOMAIN l : l[j] <= l[m]
    /\ \A m \in DOMAIN l : m < j => l[m] > l[j]

\* the "while True" loop that follows the parents from layer t down; the
\* index parents[t][nan] raises a TypeError
RECURSIVE backtrack(_, _, _)
backtrack(parents, t, nodes_shortest_path) ==
  LET last == nodes_shortest_path[len(nodes_shortest_path) - 1]
  IN  IF last = nan THEN [kind |-> "TypeError"]
      ELSE IF parents[t][last] = -1
        THEN [kind |-> "ok", nodes |-> nodes_shortest_path]
        ELSE backtrack(parents, t - 1, append(nodes_shortest_path, parents[t][last]))

\* the terminal node, the back-tracking and the result, from the tables the
\* forward pass left; tab is kept as it stood when the call ended
find_path(cand_data, tab) ==
  LET n_layer == len(cand_data)
      last == argmin(tab.S_path[n_layer - 1])
      len_shortest_path == tab.S_path[n_layer - 1][last]
      back == backtrack(tab.parents, n_layer - 1, append(EmptyList, last))
  IN  IF tab.raised # "" THEN [kind |-> tab.raised, tab |-> tab]
      ELSE IF back.kind = "ok"
        THEN [ kind |-> "ok",
               nodes_shortest_path |-> reverse(back.nodes),
               len_shortest_path |-> len_shortest_path,
               tab |-> tab ]
        ELSE [kind |-> back.kind, tab |-> tab]

shortest_path_exclude_candidates(cand_data, weight_fun, cut_off_n_cand, check_input, exclude_blocked_candidates, kwds) ==
  IF check_input /\ ~check_input_passes(cand_data, exclude_blocked_candidates, 0, -inf)
    THEN [kind |-> "AssertionError", tab |-> NoTables]
    ELSE find_path(cand_data,
                   loop_t(cand_data, weight_fun, with_dW_path(kwds), cut_off_n_cand,
                          exclude_blocked_candidates, first_tables(cand_data), 0))

\* shortest_path: "for j in range (n_cand_tp1)", from j on
RECURSIVE sp_loop_j(_, _, _, _, _, _, _, _)
sp_loop_j(cand_data, weight_fun, kwds_c, tab, t, i, j, n_cand_tp1) ==
  IF j >= n_cand_tp1 \/ tab.raised # "" THEN tab
  ELSE sp_loop_j(cand_data, weight_fun, kwds_c,
                 relax(cand_data, weight_fun, kwds_c, tab, t, i, j), t, i, j + 1, n_cand_tp1)

\* shortest_path: "for i in range (n_cand_t)", from i on
RECURSIVE sp_loop_i(_, _, _, _, _, _, _, _)
sp_loop_i(cand_data, weight_fun, kwds_c, tab, t, i, n_cand_t, n_cand_tp1) ==
  IF i >= n_cand_t \/ tab.raised # "" THEN tab
  ELSE sp_loop_i(cand_data, weight_fun, kwds_c,
                 sp_loop_j(cand_data, weight_fun, kwds_c, tab, t, i, 0, n_cand_tp1),
                 t, i + 1, n_cand_t, n_cand_tp1)

\* shortest_path: "for t in range (n_layer - 1)", from t on
RECURSIVE sp_loop_t(_, _, _, _, _, _)
sp_loop_t(cand_data, weight_fun, kwds_c, cut_off_n_cand, tab, t) ==
  IF t >= len(cand_data) - 1 \/ tab.raised # "" THEN tab
  ELSE LET n_cand_t == n_cand(cand_data, t, cut_off_n_cand)
           n_cand_tp1 == n_cand(cand_data, t + 1, cut_off_n_cand)
       IN  sp_loop_t(cand_data, weight_fun, kwds_c, cut_off_n_cand,
                     sp_loop_i(cand_data, weight_fun, kwds_c, append_rows(tab, n_cand_tp1),
                               t, 0, n_cand_t, n_cand_tp1),
                     t + 1)

shortest_path(cand_data, weight_fun, cut_off_n_cand, check_input, kwds) ==
  IF check_input /\ ~check_input_passes(cand_data, FALSE, 0, -inf)
    THEN [kind |-> "AssertionError", tab |-> NoTables]
    ELSE find_path(cand_data,
                   sp_loop_t(cand_data, weight_fun, with_dW_path(kwds), cut_off_n_cand,
                             first_tables(cand_data), 0))

(***************************************************************************)
(* perform_reranking_of_candidates: helpers                                *)
(***************************************************************************)
\* all (l), any (l) of a list of booleans
all(l) == \A i \in DOMAIN l : l[i]

\* np.sum (~all_cand_blocked)
num_not_blocked(all_cand_blocked) ==
  Cardinality({t \in DOMAIN all_cand_blocked : ~all_cand_blocked[t]})

\* _t_map: np.arange (0, len (all_cand_blocked))[~all_cand_blocked][t]
t_map(t, all_cand_blocked) ==
  CHOOSE n \in DOMAIN all_cand_blocked :
    /\ ~all_cand_blocked[n]
    /\ Cardinality({m \in DOMAIN all_cand_blocked : m < n /\ ~all_cand_blocked[m]}) = t

\* the list of all layers, the exhausted ones included
layers_all(cand_data_c, all_cand_blocked, t, acc) == cand_data_c

\* [cand_data_c[t] for t, _ in enumerate (cand_data_c) if not all_cand_blocked[t]],
\* from layer t on
RECURSIVE layers_not_blocked(_, _, _, _)
layers_not_blocked(cand_data_c, all_cand_blocked, t, acc) ==
  IF t >= len(cand_data_c) THEN acc
  ELSE layers_not_blocked(cand_data_c, all_cand_blocked, t + 1,
         IF all_cand_blocked[t] THEN acc ELSE append(acc, cand_data_c[t]))

\* deepcopy that hands back the object itself
deepcopy_alias(h, ref) == [heap |-> h, ref |-> ref]

\* copy.deepcopy of the object at address ref: a new object, equal to the old
deepcopy(h, ref) ==
  LET new == Cardinality(DOMAIN h) + 1
  IN  [heap |-> h @@ (new :> h[ref]),
       ref |-> new]

\* cand_data_c[t]["is_blocked"] = np.zeros (n_cand_t, dtype = "bool")
zero_blocked(layer) ==
  ("is_blocked" :> repeat(FALSE, len(layer.iokrscores))) @@ layer

\* the loop "for t, _ in enumerate (cand_data_c)" that sets every is_blocked
init_blocked(cand_data_c) ==
  list([t \in DOMAIN cand_data_c |-> zero_blocked(cand_data_c[t])])

\* blocking that marks cand and clears the other flags of the layer
block_clear(cand_data_c, n, cand) ==
  [cand_data_c EXCEPT ![n].is_blocked = list([i \in DOMAIN @ |-> i = cand])]

\* cand_data_c[n]["is_blocked"][cand] = True
block(cand_data_c, n, cand) == [cand_data_c EXCEPT ![n].is_blocked[cand] = TRUE]

\* the value "num_correct[k] +=" adds for candidate cand of layer n
correct(cand_data_c, n, cand) ==
  IF cand_data_c[n].is_true_identification[cand] THEN 1 ELSE 0

\* "for t, cand in enumerate (path)", from position t on: the blocked copy and
\* the number of true candidates on the path
RECURSIVE walk_path(_, _, _, _, _)
walk_path(cand_data_c, path, all_cand_blocked, t, num) ==
  IF t >= len(path) THEN [cand_data_c |-> cand_data_c, num |-> num]
  ELSE LET n == t_map(t, all_cand_blocked)
       IN  walk_path(block(cand_data_c, n, path[t]), path, all_cand_blocked, t + 1,
                     num + correct(cand_data_c, n, path[t]))

\* all_cand_blocked[t] = all (cand_data_c[t]["is_blocked"]), for every t
update_all_cand_blocked(cand_data_c) ==
  list([t \in DOMAIN cand_data_c |-> all(cand_data_c[t].is_blocked)])

\* np.cumsum
RECURSIVE sum_upto(_, _)
sum_upto(l, m) == IF m < 0 THEN 0 ELSE l[m] + sum_upto(l, m - 1)

\* cumsum that does not sum
cumsum_none(l) == l

cumsum(l) == list([m \in DOMAIN l |-> sum_upto(l, m)])

\* np.cumsum (num_correct) / len (cand_data_c) * 100, each entry the exact
\* fraction num / den
accuracies(num_correct, n_layer) ==
  LET c == cumsum(num_correct)
  IN  list([m \in DOMAIN num_correct |-> [num |-> c[m] * 100, den |-> n_layer]])

(***************************************************************************)
(* State                                                                   *)
(***************************************************************************)
VARIABLES
  heap,                       \* address -> list of layer dictionaries
  cand_data_c,                \* address of the working copy, 0 outside a call
  topk, cut_off_n_cand, kwargs,                 \* arguments
  weight_function,            \* the weight function given, or None
  check_input, exclude_blocked_candidates,      \* arguments of the solvers
  pc,                         \* "idle", "loop", "returned", "raised"
  fn,                         \* the function called last
  k, num_correct, paths, lengths, all_cand_blocked,   \* locals of the re-ranking
  result,                     \* what the last call returned or raised
  calls, first_result         \* completed calls, and the result of the first

vars == << heap, cand_data_c, topk, cut_off_n_cand, kwargs, weight_function, check_input,
           exclude_blocked_candidates, pc, fn, k, num_correct, paths, lengths,
           all_cand_blocked, result, calls, first_result >>

args == << topk, cut_off_n_cand, kwargs, weight_function, check_input,
          exclude_blocked_candidates >>

locals == << k, num_correct, paths, lengths, all_cand_blocked >>

\* the address of the caller's list of layers
ARG == 1

cand_data == heap[ARG]

(***************************************************************************)
(* Inputs                                                                  *)
(***************************************************************************)
MaxLayers == 3
MaxLayersBlocked == 2
MaxWidth == 2
MaxScore == 2
MaxWtx == 1
MaxRt == 1
MaxD == 1
MaxTopk == 3
MaxCutOff == 1
MaxCalls == 2

\* cut_off_n_cand: a number of candidates, or the default np.inf
CutOffs == (1..MaxCutOff) \cup {inf}

\* scores of a layer of n candidates: distinct, the highest first and MaxScore
ScoreLists(n) ==
  {l \in [0..(n - 1) -> 1..MaxScore] :
     /\ l[0] = MaxScore
     /\ \A i \in DOMAIN l : (i + 1) \in DOMAIN l => l[i] > l[i + 1]}

\* scores with ties
TiedScoreLists(n) == {l \in [0..(n - 1) -> 1..MaxScore] : is_sorted_descending(l)}

WtxLists(n) == [0..(n - 1) -> 0..MaxWtx]

\* exactly one true candidate
TrueLists(n) == {list([i \in 0..(n - 1) |-> i = c]) : c \in 0..(n - 1)}

FlagLists(n) == [0..(n - 1) -> BOOLEAN]

\* retention times of n_layer measurements in increasing order, the first at 0
RtLists(n_layer) ==
  {r \in [0..(n_layer - 1) -> 0..MaxRt] :
     /\ r[0] = 0
     /\ \A t \in DOMAIN r : (t + 1) \in DOMAIN r => r[t] <= r[t + 1]}

\* retention times with the same gap between any two measurements in a row
EvenRtLists(n_layer) == {list([t \in 0..(n_layer - 1) |-> t * gap]) : gap \in 0..MaxRt}

\* the layers build_candidate_structure hands over, retention time aside
Layers ==
  UNION {{[iokrscores |-> s, wtx |-> w, is_true_identification |-> tr] :
            s \in ScoreLists(n), w \in WtxLists(n), tr \in TrueLists(n)} :
         n \in 1..MaxWidth}

\* layers whose true candidate is the first
LayersTrueFirst == {l \in Layers : l.is_true_identification[0]}

\* layers with tied scores, the first candidate the true one
LayersTied ==
  UNION {{[iokrscores |-> s, wtx |-> w, is_true_identification |-> tr] :
            s \in TiedScoreLists(n), w \in WtxLists(n), tr \in {list([i \in 0..(n - 1) |-> i = 0])}} :
         n \in 1..MaxWidth}

with_rt(layer, rt) == ("rt_cand_list" :> rt) @@ layer

with_blocked(layer, is_blocked) == ("is_blocked" :> is_blocked) @@ layer

\* is_blocked vectors left on the caller's layers: every candidate marked
stale_blocked(layer) == with_blocked(layer, repeat(TRUE, len(layer.iokrscores)))

\* a layer with any is_blocked vector of its width
BlockedLayers(layers) ==
  UNION {{with_blocked(l, b) : b \in FlagLists(len(l.iokrscores))} : l \in layers}

Kwargs(Ds, signs, epsilons, logs) ==
  [D : Ds, use_sign : signs, epsilon_rt : epsilons, use_log : logs]

\* the two measurements of the worked example: scores 0.9, 0.5 and 0.8, 0.6,
\* order values 2.0, 1.0 and 1.5, 0.9, retention times 1.0 and 5.0
Scenario ==
  (0 :> [iokrscores |-> (0 :> 9 @@ 1 :> 5), wtx |-> (0 :> 20 @@ 1 :> 10),
         is_true_identification |-> (0 :> TRUE @@ 1 :> FALSE), rt_cand_list |-> 10])
  @@
  (1 :> [iokrscores |-> (0 :> 8 @@ 1 :> 6), wtx |-> (0 :> 15 @@ 1 :> 9),
         is_true_identification |-> (0 :> TRUE @@ 1 :> FALSE), rt_cand_list |-> 50])

\* D = 1, epsilon_rt = 0.1, use_sign = false, use_log = false
ScenarioKwargs == [D |-> 1, use_sign |-> FALSE, epsilon_rt |-> 1, use_log |-> FALSE]

\* scores in any order
AnyScoreLists(n) == [0..(n - 1) -> 1..MaxScore]

\* retention times in any order
AnyRtLists(n_layer) == [0..(n_layer - 1) -> 0..MaxRt]

\* order values that fall with the rank of a candidate
falling_wtx(n) == list([i \in 0..(n - 1) |-> IF i = 0 THEN MaxWtx ELSE 0])

\* layers that need not pass the consistency checks: scores in any order, and
\* no is_blocked vector, one of the width of the layer (nothing blocked, or
\* the first candidate), or one that is shorter or longer
UncheckedLayers ==
  UNION {
    LET base == {[iokrscores |-> sc, wtx |-> falling_wtx(n),
                  is_true_identification |-> list([i \in 0..(n - 1) |-> i = 0])] :
                   sc \in AnyScoreLists(n)}
    IN  base \cup UNION {{with_blocked(l, repeat(FALSE, n)),
                          with_blocked(l, list([i \in 0..(n - 1) |-> i = 0])),
                          with_blocked(l, repeat(FALSE, n - 1)),
                          with_blocked(l, repeat(FALSE, n + 1))} : l \in base}
    : n \in 1..MaxWidth}

\* layers that pass the consistency checks, with nothing blocked, and any
\* number of candidates marked as the true one
UnmarkedLayers ==
  UNION {{[iokrscores |-> sc, wtx |-> w, is_true_identification |-> tr,
           is_blocked |-> repeat(FALSE, n)] :
            sc \in ScoreLists(n), w \in {falling_wtx(n), repeat(0, n)}, tr \in FlagLists(n)} :
         n \in 1..MaxWidth}

\* keyword arguments without the key missing
without(kwds, missing) == list([key \in (DOMAIN kwds) \ {missing} |-> kwds[key]])

\* keyword arguments that lack one key of the weight function, or all
IncompleteKwargs(kwds) ==
  {without(kwds, missing) : missing \in DOMAIN kwds} \cup {EmptyList}

NoResult == [kind |-> "none"]

InitLocals ==
  /\ cand_data_c = 0
  /\ pc = "idle"
  /\ fn = "none"
  /\ k = 0
  /\ num_correct = EmptyList
  /\ paths = EmptyList
  /\ lengths = EmptyList
  /\ all_cand_blocked = EmptyList
  /\ result = NoResult
  /\ calls = 0
  /\ first_result = NoResult

\* the inputs of perform_reranking_of_candidates
Init ==
  /\ \E n_layer \in 1..MaxLayers :
       \E ls \in [0..(n_layer - 1) -> Layers], r \in EvenRtLists(n_layer) :
         heap = ARG :> list([t \in 0..(n_layer - 1) |-> with_rt(ls[t], r[t])])
  /\ topk \in 1..MaxTopk
  /\ weight_function = "_weight_func_max"
  /\ cut_off_n_cand \in CutOffs
  /\ kwargs \in Kwargs(1..(MaxD + 1), {FALSE}, {0}, {FALSE})
  /\ check_input = TRUE
  /\ exclude_blocked_candidates = TRUE
  /\ InitLocals

\* the inputs of repeated calls of perform_reranking_of_candidates, with and
\* without is_blocked vectors on the caller's layers
InitRepeat ==
  /\ \E n_layer \in 1..MaxLayersBlocked :
       \E ls \in [0..(n_layer - 1) -> Layers], r \in EvenRtLists(n_layer), stale \in BOOLEAN :
         heap = ARG :> list([t \in 0..(n_layer - 1) |->
                              IF stale THEN stale_blocked(with_rt(ls[t], r[t]))
                                       ELSE with_rt(ls[t], r[t])])
  /\ topk \in 1..MaxTopk
  /\ weight_function = "_weight_func_max"
  /\ cut_off_n_cand \in CutOffs
  /\ kwargs \in Kwargs(1..(MaxD + 1), {FALSE}, {0}, {FALSE})
  /\ check_input = TRUE
  /\ exclude_blocked_candidates = TRUE
  /\ InitLocals

\* the inputs of the solvers: layers with blocked candidates, with and without
\* a cut-off
InitSolver ==
  /\ \E n_layer \in 1..MaxLayersBlocked :
       \E ls \in [0..(n_layer - 1) -> BlockedLayers(LayersTrueFirst)],
          r \in EvenRtLists(n_layer) :
         heap = ARG :> list([t \in 0..(n_layer - 1) |-> with_rt(ls[t], r[t])])
  /\ topk = 1
  /\ weight_function = "_weight_func_max"
  /\ cut_off_n_cand \in CutOffs
  /\ kwargs \in Kwargs(0..(MaxD + 1), BOOLEAN, {0}, {FALSE})
  /\ check_input \in BOOLEAN
  /\ exclude_blocked_candidates \in BOOLEAN
  /\ InitLocals

\* the inputs of the solvers: every weight-function configuration, nothing
\* blocked, with and without a cut-off; among the graphs the worked example
InitWeights ==
  /\ \/ \E n_layer \in 1..MaxLayers :
          \E ls \in [0..(n_layer - 1) -> LayersTrueFirst], r \in RtLists(n_layer) :
            heap = ARG :> list([t \in 0..(n_layer - 1) |-> with_rt(ls[t], r[t])])
     \/ \E n_layer \in 1..MaxLayersBlocked :
          \E ls \in [0..(n_layer - 1) -> LayersTied], r \in RtLists(n_layer) :
            heap = ARG :> list([t \in 0..(n_layer - 1) |-> with_rt(ls[t], r[t])])
     \/ heap = ARG :> Scenario
  /\ topk = 1
  /\ weight_function = "_weight_func_max"
  /\ cut_off_n_cand \in CutOffs
  /\ kwargs \in Kwargs(0..MaxD, BOOLEAN, 0..MaxRt, BOOLEAN)
  /\ check_input = TRUE
  /\ exclude_blocked_candidates = FALSE
  /\ InitLocals

\* the inputs of the solvers under check_input: layers that pass the
\* consistency checks and layers that do not
InitValidate ==
  /\ \E n_layer \in 1..MaxLayersBlocked :
       \E ls \in [0..(n_layer - 1) -> UncheckedLayers], r \in AnyRtLists(n_layer) :
         heap = ARG :> list([t \in 0..(n_layer - 1) |-> with_rt(ls[t], r[t])])
  /\ topk = 1
  /\ weight_function = "_weight_func_max"
  /\ cut_off_n_cand \in CutOffs
  /\ kwargs \in Kwargs({MaxD}, {FALSE}, {0}, {FALSE})
  /\ check_input = TRUE
  /\ exclude_blocked_candidates \in BOOLEAN
  /\ InitLocals

\* the inputs of the solvers and of perform_reranking_of_candidates with and
\* without a weight function, with complete and incomplete keyword arguments
InitConfig ==
  /\ \E n_layer \in 1..MaxLayersBlocked :
       \E ls \in [0..(n_layer - 1) -> UnmarkedLayers], r \in EvenRtLists(n_layer) :
         heap = ARG :> list([t \in 0..(n_layer - 1) |-> with_rt(ls[t], r[t])])
  /\ topk \in 1..MaxTopk
  /\ weight_function \in {"_weight_func_max", None}
  /\ cut_off_n_cand \in CutOffs
  /\ \E kwds \in Kwargs({MaxD}, {FALSE}, {0}, {FALSE}) :
       kwargs \in {kwds} \cup IncompleteKwargs(kwds)
  /\ check_input = TRUE
  /\ exclude_blocked_candidates = TRUE
  /\ InitLocals

(***************************************************************************)
(* perform_reranking_of_candidates                                         *)
(***************************************************************************)
\* the call is over: its locals and its working copy are gone
Finish(r) ==
  /\ result' = r
  /\ first_result' = IF calls = 0 THEN r ELSE first_result
  /\ calls' = calls + 1
  /\ pc' = IF r.kind = "ok" THEN "returned" ELSE "raised"
  /\ heap' = list([a \in (DOMAIN heap) \ {cand_data_c} |-> heap[a]])
  /\ cand_data_c' = 0
  /\ k' = 0
  /\ num_correct' = EmptyList
  /\ paths' = EmptyList
  /\ lengths' = EmptyList
  /\ all_cand_blocked' = EmptyList

\* entry: the deep copy, the ValueError for a missing weight function, the
\* fresh is_blocked vectors, the empty result lists
Enter ==
  /\ IF weight_function = None
       THEN Finish([kind |-> "ValueError"])
       ELSE /\ LET c == deepcopy(heap, ARG)
               IN  /\ cand_data_c' = c.ref
                   /\ heap' = [c.heap EXCEPT ![c.ref] = init_blocked(c.heap[c.ref])]
                   /\ all_cand_blocked' = repeat(FALSE, len(c.heap[c.ref]))
            /\ num_correct' = EmptyList
            /\ paths' = EmptyList
            /\ lengths' = EmptyList
            /\ k' = 0
            /\ pc' = "loop"
            /\ UNCHANGED << result, calls, first_result >>
  /\ fn' = "perform_reranking_of_candidates"
  /\ UNCHANGED args

\* the first call
Rerank_Call == pc = "idle" /\ Enter

\* a further call with the same arguments
Rerank_Again == pc \in {"returned", "raised"} /\ calls < MaxCalls /\ Enter

\* the shortest path of iteration k
path_of_iteration ==
  shortest_path_exclude_candidates(
    layers_not_blocked(heap[cand_data_c], all_cand_blocked, 0, EmptyList),
    weight_function, cut_off_n_cand, TRUE, TRUE, kwargs)

\* one iteration "for k in range (topk)": the solver's path is recorded, its
\* candidates are counted and blocked, the exhausted layers are marked; an
\* error of the solver leaves the call
Rerank_Iterate ==
  /\ pc = "loop"
  /\ k < topk
  /\ ~all(all_cand_blocked)
  /\ LET r == path_of_iteration
         w == walk_path(heap[cand_data_c], r.nodes_shortest_path, all_cand_blocked, 0, 0)
     IN  IF r.kind = "ok"
           THEN IF len(r.nodes_shortest_path) = num_not_blocked(all_cand_blocked)
                  THEN /\ num_correct' = append(num_correct, w.num)
                       /\ paths' = append(paths, r.nodes_shortest_path)
                       /\ lengths' = append(lengths, r.len_shortest_path)
                       /\ heap' = [heap EXCEPT ![cand_data_c] = w.cand_data_c]
                       /\ all_cand_blocked' = update_all_cand_blocked(w.cand_data_c)
                       /\ k' = k + 1
                       /\ UNCHANGED << cand_data_c, pc, result, calls, first_result >>
                  ELSE Finish([kind |-> "AssertionError"])
           ELSE Finish(r)
  /\ UNCHANGED << args, fn >>

\* the loop is left (topk paths, or "if all (all_cand_blocked): break") and the
\* accuracies are computed
Rerank_Return ==
  /\ pc = "loop"
  /\ k >= topk \/ all(all_cand_blocked)
  /\ Finish([ kind |-> "ok",
              topk_accs |-> accuracies(num_correct, len(heap[cand_data_c])),
              paths |-> paths,
              lengths |-> lengths ])
  /\ UNCHANGED << args, fn >>

(***************************************************************************)
(* Direct calls of the solvers                                             *)
(***************************************************************************)
Returns(r) ==
  /\ result' = r
  /\ first_result' = IF calls = 0 THEN r ELSE first_result
  /\ calls' = calls + 1
  /\ pc' = IF r.kind = "ok" THEN "returned" ELSE "raised"
  /\ UNCHANGED << heap, cand_data_c, args, locals >>

Solve_Call ==
  /\ pc = "idle"
  /\ fn' = "shortest_path_exclude_candidates"
  /\ Returns(shortest_path_exclude_candidates(cand_data, weight_function, cut_off_n_cand,
                                              check_input, exclude_blocked_candidates, kwargs))

\* shortest_path on the arguments shortest_path_exclude_candidates was given
ShortestPath_Call ==
  /\ pc \in {"returned", "raised"}
  /\ fn = "shortest_path_exclude_candidates"
  /\ calls < MaxCalls
  /\ fn' = "shortest_path"
  /\ Returns(shortest_path(cand_data, weight_function, cut_off_n_cand, check_input, kwargs))

\* shortest_path_exclude_candidates once more, on the same arguments
Solve_Again ==
  /\ pc \in {"returned", "raised"}
  /\ fn = "shortest_path"
  /\ calls <= MaxCalls
  /\ fn' = "shortest_path_exclude_candidates"
  /\ Returns(shortest_path_exclude_candidates(cand_data, weight_function, cut_off_n_cand,
                                              check_input, exclude_blocked_candidates, kwargs))

\* _weight_func_max on one edge (t,i) -> (t+1,j) of the graph
Weight_Call ==
  /\ pc = "idle"
  /\ \E t \in DOMAIN cand_data :
       /\ (t + 1) \in DOMAIN cand_data
       /\ \E i \in DOMAIN cand_data[t].iokrscores, j \in DOMAIN cand_data[t + 1].iokrscores :
            /\ result' = IF weight_func_asserts(kwargs)
                           THEN [ kind |-> "ok", u |-> <<t, i>>, v |-> <<t + 1, j>>,
                                  value |-> weight_func_max(cand_data, <<t, i>>, <<t + 1, j>>,
                                                            kwargs) ]
                           ELSE [kind |-> "AssertionError"]
            /\ pc' = IF weight_func_asserts(kwargs) THEN "weighed" ELSE "raised"
  /\ fn' = "_weight_func_max"
  /\ calls' = calls + 1
  /\ UNCHANGED << heap, cand_data_c, args, locals, first_result >>

(***************************************************************************)
(* Specifications                                                          *)
(***************************************************************************)
Next == Rerank_Call \/ Rerank_Iterate \/ Rerank_Return

Spec == Init /\ [][Next]_vars

NextRepeat == Rerank_Call \/ Rerank_Again \/ Rerank_Iterate \/ Rerank_Return

SpecRepeat == InitRepeat /\ [][NextRepeat]_vars

NextSolver == Solve_Call \/ ShortestPath_Call \/ Solve_Again

SpecSolver == InitSolver /\ [][NextSolver]_vars

SpecWeights == InitWeights /\ [][NextSolver]_vars

NextEdge == Weight_Call

SpecEdge == InitWeights /\ [][NextEdge]_vars

SpecValidate == InitValidate /\ [][NextSolver]_vars

NextConfig == NextSolver \/ Next

SpecConfig == InitConfig /\ [][NextConfig]_vars

SpecEquiv == InitSolver /\ [][NextConfig]_vars

(***************************************************************************)
(* Properties                                                              *)
(***************************************************************************)
SolverDone == pc \in {"returned", "raised"} /\ fn = "shortest_path_exclude_candidates"

\* the candidates of layer t a path may use
Eligible(t) ==
  {i \in 0..(n_cand(cand_data, t, cut_off_n_cand) - 1) :
     ~(exclude_blocked_candidates /\ cand_data[t].is_blocked[i])}

\* every layer has a retained candidate that is not blocked
HasEligible == \A t \in DOMAIN cand_data : Eligible(t) # {}

\* the sequences that pick one eligible candidate per layer
EligiblePaths == {p \in [DOMAIN cand_data -> 0..(MaxWidth - 1)] : \A t \in DOMAIN p : p[t] \in Eligible(t)}

\* -scores[0][p0] plus the edge weights between consecutive picks, up to layer t
RECURSIVE path_cost(_, _)
path_cost(p, t) ==
  IF t = 0 THEN (- cand_data[0].iokrscores[p[0]]) * (Milli \div Unit)
  ELSE path_cost(p, t - 1)
       + weight_func_max(cand_data, <<t - 1, p[t - 1]>>, <<t, p[t]>>, kwargs)[1]

TotalCost(p) == path_cost(p, len(cand_data) - 1)

\* C1: for L >= 1 layers, any cut-off and blocked flags that leave a retained
\* non-blocked candidate in every layer, shortest_path_exclude_candidates
\* returns a path of length L whose every entry path[t] is an index below
\* min(width(t), C) and, when blocked candidates are excluded, not blocked.
C1_PathValid ==
  (SolverDone /\ HasEligible) =>
     /\ result.kind = "ok"
     /\ len(result.nodes_shortest_path) = len(cand_data)
     /\ \A t \in DOMAIN cand_data : result.nodes_shortest_path[t] \in Eligible(t)

\* C2: the returned cost is the minimum, over the sequences of one eligible
\* candidate per layer, of -scores[0][p0] plus the edge weights, and the
\* returned path is such a sequence of that cost.
C2_CostIsMinimum ==
  (SolverDone /\ HasEligible) =>
     /\ result.kind = "ok"
     /\ result.nodes_shortest_path \in EligiblePaths
     /\ TotalCost(result.nodes_shortest_path) = result.len_shortest_path
     /\ \A p \in EligiblePaths : result.len_shortest_path <= TotalCost(p)

InScenario ==
  /\ cand_data = Scenario
  /\ kwargs = ScenarioKwargs
  /\ cut_off_n_cand = inf
  /\ pc \in {"returned", "raised"}

\* C3 as stated: on the worked example the solver returns path [0,0] and
\* cost -1.2.
C3_Original ==
  InScenario =>
     /\ result.kind = "ok"
     /\ result.nodes_shortest_path = (0 :> 0 @@ 1 :> 0)
     /\ result.len_shortest_path = -1200

\* C3, amended: on the worked example the solver returns path [1,0] and cost
\* -1.3, the minimum over all four paths.
C3_Amended ==
  InScenario =>
     /\ result.kind = "ok"
     /\ result.nodes_shortest_path = (0 :> 1 @@ 1 :> 0)
     /\ result.len_shortest_path = -1300
     /\ \A p \in EligiblePaths : TotalCost(p) >= -1300

C3_Witness == InScenario /\ result.kind = "ok"

\* every retention-time gap between adjacent layers is at most epsilon_rt
AllGapsSuppressed ==
  \A t \in DOMAIN cand_data :
     (t + 1) \in DOMAIN cand_data =>
        abs(cand_data[t].rt_cand_list - cand_data[t + 1].rt_cand_list) <= kwargs.epsilon_rt

\* C4: when epsilon_rt is at least every retention-time gap, then for every D,
\* use_sign and use_log and with nothing blocked, the path picks in every
\* layer the candidate of the highest score, index 0.
C4_GreedyWhenSuppressed ==
  (pc \in {"returned", "raised"} /\ AllGapsSuppressed) =>
     /\ result.kind = "ok"
     /\ result.nodes_shortest_path = repeat(0, len(cand_data))

\* three layers, a positive D, and order values that would penalise the step
\* between two top candidates were the gap not suppressed
C4_Witness ==
  /\ pc = "returned"
  /\ AllGapsSuppressed
  /\ len(cand_data) = MaxLayers
  /\ kwargs.D > 0
  /\ \E t \in DOMAIN cand_data :
       /\ (t + 1) \in DOMAIN cand_data
       /\ cand_data[t].rt_cand_list # cand_data[t + 1].rt_cand_list
       /\ len(cand_data[t + 1].iokrscores) > 1
       /\ cand_data[t].wtx[0] > cand_data[t + 1].wtx[0]
       /\ cand_data[t].wtx[0] <= cand_data[t + 1].wtx[1]
  /\ result.nodes_shortest_path = repeat(0, len(cand_data))

\* C5: perform_reranking_of_candidates never changes the caller's layers (no
\* key is added, no value changed), the working copy starts with every
\* is_blocked flag false whatever flags the caller's layers carry, and a
\* second call with the same arguments returns what the first returned.
C5_CallerUntouched ==
  [][ /\ heap'[ARG] = heap[ARG]
      /\ (pc # "loop" /\ pc' = "loop") =>
            \A t \in DOMAIN heap'[cand_data_c'] :
               \A i \in DOMAIN heap'[cand_data_c'][t].is_blocked :
                  ~heap'[cand_data_c'][t].is_blocked[i]
      /\ (calls = 1 /\ calls' = 2) => result' = first_result ]_vars

\* a second call that returned two paths for layers that came with flags
C5_Witness ==
  /\ calls = 2
  /\ pc = "returned"
  /\ "is_blocked" \in DOMAIN cand_data[0]
  /\ len(result.paths) >= 2

\* C6: every candidate on the path of an iteration is unblocked when the
\* iteration starts, so no candidate of a layer is on two returned paths.
C6_PathsDistinct ==
  [][ (pc = "loop" /\ pc' = "loop" /\ k' = k + 1) =>
         \A p \in DOMAIN paths'[k] :
            ~heap[cand_data_c][t_map(p, all_cand_blocked)].is_blocked[paths'[k][p]] ]_vars

\* every layer has the same number of candidates
UniformWidth ==
  \A t \in DOMAIN cand_data : len(cand_data[t].iokrscores) = len(cand_data[0].iokrscores)

\* C7: for layers of one common width W, any number of layers and any cut-off,
\* a call with topk > W returns exactly W accuracies, W paths and W costs.
C7_UniformWidth ==
  (pc \in {"returned", "raised"} /\ UniformWidth /\ topk > len(cand_data[0].iokrscores)) =>
     /\ result.kind = "ok"
     /\ len(result.topk_accs) = len(cand_data[0].iokrscores)
     /\ len(result.paths) = len(cand_data[0].iokrscores)
     /\ len(result.lengths) = len(cand_data[0].iokrscores)

\* the layers whose true candidate is blocked in the working copy, that is,
\* lies on one of the paths found so far
TrueFound ==
  {t \in DOMAIN heap[cand_data_c] :
     \E i \in DOMAIN heap[cand_data_c][t].is_blocked :
        /\ heap[cand_data_c][t].is_true_identification[i]
        /\ heap[cand_data_c][t].is_blocked[i]}

\* C8: after m paths the cumulative accuracy is 100 times the number of layers
\* whose true candidate lies on one of the m paths, divided by the number of
\* layers; a layer's true candidate counts once.
C8_Accuracy ==
  (pc = "loop" /\ k >= 1) =>
     accuracies(num_correct, len(heap[cand_data_c]))[k - 1]
       = [num |-> 100 * Cardinality(TrueFound), den |-> len(heap[cand_data_c])]

\* C9: the returned cumulative accuracies never decrease.
C9_Monotone ==
  pc = "returned" =>
     \A m \in DOMAIN result.topk_accs :
        (m - 1) \in DOMAIN result.topk_accs =>
           result.topk_accs[m].num * result.topk_accs[m - 1].den
             >= result.topk_accs[m - 1].num * result.topk_accs[m].den

\* two accuracies over three layers, a true candidate found by the second path
C9_Witness ==
  /\ pc = "returned"
  /\ len(cand_data) = MaxLayers
  /\ len(result.topk_accs) >= 2
  /\ result.topk_accs[0].num < result.topk_accs[1].num

\* C10: for every topk and cut-off the call returns accuracies, paths and
\* costs of one length n <= topk, with n < topk only when every candidate of
\* every layer is blocked; it never ends in an error.
C10_Succeeds ==
  [][ (pc = "loop" /\ pc' # "loop") =>
         /\ result'.kind = "ok"
         /\ len(result'.topk_accs) = k
         /\ len(result'.paths) = k
         /\ len(result'.lengths) = k
         /\ k <= topk
         /\ k < topk =>
              \A t \in DOMAIN heap[cand_data_c] : all(heap[cand_data_c][t].is_blocked) ]_vars

\* some assertion of the consistency checks fails for the layers, the
\* is_blocked vectors being looked at when with_blocked
ChecksViolated(with_blocked_checks) ==
  \E t \in DOMAIN cand_data :
     \/ \E i \in DOMAIN cand_data[t].iokrscores, j \in DOMAIN cand_data[t].iokrscores :
          i < j /\ cand_data[t].iokrscores[i] < cand_data[t].iokrscores[j]
     \/ t > 0 /\ cand_data[t].rt_cand_list < cand_data[t - 1].rt_cand_list
     \/ /\ with_blocked_checks
        /\ \/ "is_blocked" \notin DOMAIN cand_data[t]
           \/ DOMAIN cand_data[t].is_blocked # DOMAIN cand_data[t].iokrscores

\* a call of one of the two solvers is over
AnySolverDone ==
  /\ pc \in {"returned", "raised"}
  /\ fn \in {"shortest_path_exclude_candidates", "shortest_path"}

\* C11: with check_input true the solver ends with an assertion error, no
\* result and no cost/parent table initialised whenever some layer's scores
\* are not descending, some layer's retention time is smaller than the
\* previous layer's or, with exclude_blocked_candidates, some layer lacks an
\* is_blocked vector of the length of its scores; otherwise the consistency
\* checks do not abort the call.
C11_Validation ==
  (AnySolverDone /\ check_input) =>
     IF ChecksViolated(fn = "shortest_path_exclude_candidates" /\ exclude_blocked_candidates)
       THEN /\ result.kind = "AssertionError"
            /\ result.tab = NoTables
            /\ "nodes_shortest_path" \notin DOMAIN result
            /\ "len_shortest_path" \notin DOMAIN result
       ELSE result.kind # "AssertionError"

\* two layers whose only defect is that the second was measured before the
\* first: the call was aborted
C11_Witness ==
  /\ AnySolverDone
  /\ check_input
  /\ len(cand_data) = 2
  /\ cand_data[1].rt_cand_list < cand_data[0].rt_cand_list
  /\ \A t \in DOMAIN cand_data : is_sorted_descending(cand_data[t].iokrscores)
  /\ ~exclude_blocked_candidates
  /\ result.kind = "AssertionError"

\* no weight function, or keyword arguments that lack a key it requires
ConfigError ==
  \/ weight_function = None
  \/ \E key \in {"D", "use_sign", "epsilon_rt", "use_log"} : key \notin DOMAIN kwargs

\* a call of a solver or of perform_reranking_of_candidates is over
CallDone == pc \in {"returned", "raised"}

\* C12: without a weight function, or with keyword arguments that lack one
\* of D, use_sign, epsilon_rt, use_log, a call of a solver or of the
\* re-ranking fails and returns nothing, and it fails before any table of
\* the dynamic program exists, for every input, a single layer included.
C12_ConfigFails ==
  (CallDone /\ ConfigError) =>
     /\ result.kind \in {"ValueError", "AssertionError", "TypeError"}
     /\ "tab" \in DOMAIN result => result.tab = NoTables

\* C12 for the inputs the weight function is called on: two layers at least
\* and the failure itself, leaving aside at which point of the call it occurs
C12_FailsWhenCalled ==
  (CallDone /\ ConfigError /\ len(cand_data) >= 2) =>
     result.kind \in {"ValueError", "AssertionError", "TypeError"}

\* the layers with no candidate, or more than one, marked as the true one
Mismarked ==
  {t \in DOMAIN cand_data :
     Cardinality({i \in DOMAIN cand_data[t].is_true_identification :
                    cand_data[t].is_true_identification[i]}) # 1}

\* C13: perform_reranking_of_candidates, which validates its input, ends
\* with an error and no result when the is_true vector of some layer has no
\* true entry or more than one.
C13_TrueCountChecked ==
  (CallDone /\ fn = "perform_reranking_of_candidates" /\ ~ConfigError /\ Mismarked # {}) =>
     result.kind = "AssertionError"

\* the candidates of layer t the forward pass of the last call went through
Scanned(t) ==
  {i \in 0..(n_cand(cand_data, t, cut_off_n_cand) - 1) :
     ~(/\ fn = "shortest_path_exclude_candidates"
       /\ exclude_blocked_candidates
       /\ cand_data[t].is_blocked[i])}

\* the length of the path that reaches (t+1, j) through (t, i), from the table
\* the last call left
Through(t, i, j) ==
  add(result.tab.S_path[t][i],
      weight_func_max(cand_data, <<t, i>>, <<t + 1, j>>, kwargs)[1])

\* the first index among js at which row takes its smallest value
FirstMinimum(row, js) ==
  CHOOSE j \in js : \A m \in js : row[j] < row[m] \/ (row[j] = row[m] /\ j <= m)

\* C14: ties go to the lowest index: the terminal node is the smallest j of
\* minimal S[L-1][j], the parent stored for a node (t+1, j) is the smallest
\* eligible i that minimises S[t][i] + weight((t,i),(t+1,j)), and a second
\* call on the same input and configuration returns the same path and cost.
C14_LowestIndex ==
  (AnySolverDone /\ result.kind = "ok") =>
     LET L == len(cand_data)
         S == result.tab.S_path
     IN  /\ result.nodes_shortest_path[L - 1] = FirstMinimum(S[L - 1], DOMAIN S[L - 1])
         /\ \A t \in 0..(L - 2) : \A j \in Scanned(t + 1) :
               Scanned(t) # {} =>
                 LET through == [i \in Scanned(t) |-> Through(t, i, j)]
                     first == FirstMinimum(through, Scanned(t))
                 IN  through[first] < inf =>
                       /\ result.tab.parents[t + 1][j] = first
                       /\ S[t + 1][j] = through[first]
         /\ calls > MaxCalls =>
               /\ result.nodes_shortest_path = first_result.nodes_shortest_path
               /\ result.len_shortest_path = first_result.len_shortest_path

\* two candidates of the first layer reach a node of the second at the same
\* length, two nodes of the second layer end paths of the same minimal
\* length, and the call was repeated
C14_Witness ==
  /\ AnySolverDone
  /\ result.kind = "ok"
  /\ calls > MaxCalls
  /\ len(cand_data) = 2
  /\ Scanned(0) = {0, 1}
  /\ Scanned(1) = {0, 1}
  /\ Through(0, 0, 0) = Through(0, 1, 0)
  /\ result.tab.S_path[1][0] = result.tab.S_path[1][1]
  /\ result.nodes_shortest_path[1] = 0

\* the order difference the weight of the edge (t,i) -> (t+1,j) is stated
\* with, in tenths
StatedDelta(t, i, j) ==
  LET gap == cand_data[t].rt_cand_list - cand_data[t + 1].rt_cand_list
      close == (gap <= kwargs.epsilon_rt) /\ (-gap <= kwargs.epsilon_rt)
      delta == IF close THEN 0 ELSE cand_data[t].wtx[i] - cand_data[t + 1].wtx[j]
  IN  IF ~kwargs.use_sign THEN delta
      ELSE IF delta > 0 THEN Unit ELSE IF delta = 0 THEN 0 ELSE -Unit

\* the weight the edge is stated to have, in thousandths
StatedWeight(t, i, j) ==
  LET delta == StatedDelta(t, i, j)
      penalty == IF delta > 0 THEN delta ELSE 0
      transformed == IF kwargs.use_log THEN LogTable[penalty + 1]
                                       ELSE penalty * (Milli \div Unit)
  IN  kwargs.D * transformed - cand_data[t + 1].iokrscores[j] * (Milli \div Unit)

\* C15: _weight_func_max returns (edge_weight, order_delta): order_delta is 0
\* when the two retention times differ by at most epsilon_rt and else the
\* difference of the order values, replaced by its sign under use_sign; the
\* penalty is max(0, order_delta), replaced by ln(penalty + 1) under use_log;
\* edge_weight = -score + D * penalty.  An edge with order_delta <= 0 weighs
\* exactly -score, and the result is that of the two layers t, t+1 alone.
C15_WeightFormula ==
  pc = "weighed" =>
     LET t == result.u[1]
         i == result.u[2]
         j == result.v[2]
         two == list([n \in {t, t + 1} |-> cand_data[n]])
     IN  /\ result.v[1] = t + 1
         /\ result.value = << StatedWeight(t, i, j), StatedDelta(t, i, j) >>
         /\ result.value[2] <= 0 =>
               result.value[1] = - cand_data[t + 1].iokrscores[j] * (Milli \div Unit)
         /\ result.value = weight_func_max(two, result.u, result.v, kwargs)

\* the edge between the second and the third layer, penalised under D > 0,
\* use_sign and use_log
C15_Witness ==
  /\ pc = "weighed"
  /\ result.u[1] = 1
  /\ len(cand_data) = MaxLayers
  /\ kwargs.D > 0
  /\ kwargs.use_sign
  /\ kwargs.use_log
  /\ result.value[2] = Unit
  /\ result.value[1] > - cand_data[2].iokrscores[result.v[2]] * (Milli \div Unit)

\* no candidate of the caller's layers is blocked
NothingBlocked ==
  \A t \in DOMAIN cand_data : \A i \in DOMAIN cand_data[t].is_blocked :
     ~cand_data[t].is_blocked[i]

\* path and cost of two results are the same, or both calls failed alike
SameOutcome(r1, r2) ==
  /\ r1.kind = r2.kind
  /\ r1.kind = "ok" =>
       /\ r1.nodes_shortest_path = r2.nodes_shortest_path
       /\ r1.len_shortest_path = r2.len_shortest_path

\* C16: shortest_path_exclude_candidates with exclude_blocked_candidates
\* false, or with it true and no candidate blocked, returns the path and the
\* cost shortest_path returns for the same layers, cut-off and
\* configuration; and the first path and cost of
\* perform_reranking_of_candidates are those of shortest_path.
C16_SameAsShortestPath ==
  /\ ( /\ pc \in {"returned", "raised"}
       /\ fn = "shortest_path"
       /\ calls = 2
       /\ ~exclude_blocked_candidates \/ NothingBlocked )
     => SameOutcome(first_result, result)
  /\ ( pc = "loop" /\ k = 1 )
     => LET sp == shortest_path(cand_data, weight_function, cut_off_n_cand, TRUE, kwargs)
        IN  /\ sp.kind = "ok"
            /\ paths[0] = sp.nodes_shortest_path
            /\ lengths[0] = sp.len_shortest_path

\* shortest_path has returned what shortest_path_exclude_candidates returned
\* before it, with the exclusion switched off, for two layers with a blocked
\* candidate each and a path that is not the greedy one
C16_Witness ==
  /\ pc = "returned"
  /\ fn = "shortest_path"
  /\ calls = 2
  /\ ~exclude_blocked_candidates
  /\ len(cand_data) = 2
  /\ \A t \in DOMAIN cand_data : \E i \in DOMAIN cand_data[t].is_blocked : cand_data[t].is_blocked[i]
  /\ result.nodes_shortest_path # repeat(0, 2)
  /\ result.nodes_shortest_path = first_result.nodes_shortest_path

\* minus the sum of the top scores of the layers up to t, in thousandths
RECURSIVE top_scores(_)
top_scores(t) ==
  IF t < 0 THEN 0
  ELSE top_scores(t - 1) - cand_data[t].iokrscores[0] * (Milli \div Unit)

\* C17: with D = 0, whatever the order values, retention times, epsilon_rt,
\* use_sign and use_log are, and with nothing blocked, the path of the solver
\* is index 0 in every layer and its cost minus the sum of the top scores.
C17_NoRerankingAtZero ==
  (AnySolverDone /\ kwargs.D = 0) =>
     /\ result.kind = "ok"
     /\ result.nodes_shortest_path = repeat(0, len(cand_data))
     /\ result.len_shortest_path = top_scores(len(cand_data) - 1)

\* three layers, D = 0, gaps above epsilon_rt and order values that D > 0
\* would penalise between the top candidates of the last two layers
C17_Witness ==
  /\ AnySolverDone
  /\ result.kind = "ok"
  /\ kwargs.D = 0
  /\ len(cand_data) = MaxLayers
  /\ ~AllGapsSuppressed
  /\ len(cand_data[2].iokrscores) > 1
  /\ cand_data[1].rt_cand_list - cand_data[2].rt_cand_list < - kwargs.epsilon_rt
  /\ cand_data[1].wtx[0] > cand_data[2].wtx[0]
  /\ cand_data[1].wtx[0] <= cand_data[2].wtx[1]
  /\ result.nodes_shortest_path = repeat(0, MaxLayers)

\* the layers that are not exhausted
Open == {n \in DOMAIN all_cand_blocked : ~all_cand_blocked[n]}

\* the number of layers before n that are not exhausted
Position(n) == Cardinality({m \in Open : m < n})

\* C18: every iteration hands the solver exactly the layers that are not
\* exhausted, in their order; the candidate chosen at position p of the
\* sub-sequence is counted and blocked in the p-th layer that was not
\* exhausted when the solver ran; an exhausted layer is not passed again and
\* its is_blocked vector does not change.
C18_SubSequence ==
  [][ pc = "loop" =>
        LET layers == heap[cand_data_c]
            passed == layers_not_blocked(layers, all_cand_blocked, 0, EmptyList)
        IN  /\ len(passed) = Cardinality(Open)
            /\ \A n \in Open :
                  /\ passed[Position(n)] = layers[n]
                  /\ t_map(Position(n), all_cand_blocked) = n
            /\ \A n \in DOMAIN layers : all_cand_blocked[n] => all(layers[n].is_blocked)
            /\ (pc' = "loop" /\ k' = k + 1) =>
                  LET path == paths'[k]
                  IN  /\ DOMAIN path = 0..(Cardinality(Open) - 1)
                      /\ \A n \in DOMAIN layers :
                            IF n \in Open
                              THEN heap'[cand_data_c][n] =
                                     [layers[n] EXCEPT !.is_blocked[path[Position(n)]] = TRUE]
                              ELSE /\ heap'[cand_data_c][n] = layers[n]
                                   /\ all_cand_blocked'[n]
                      /\ num_correct'[k] =
                            Cardinality({n \in Open :
                               layers[n].is_true_identification[path[Position(n)]]}) ]_vars

\* three layers, the first exhausted by the first path: the second path has
\* two entries and its first entry, candidate 1, is blocked in the second layer
C18_Witness ==
  /\ pc = "loop"
  /\ k = 2
  /\ len(heap[cand_data_c]) = MaxLayers
  /\ len(heap[cand_data_c][0].iokrscores) = 1
  /\ len(paths[1]) = 2
  /\ paths[1][0] = 1
  /\ heap[cand_data_c][1].is_blocked[1]
  /\ all(all_cand_blocked)

\* C19: a call of shortest_path_exclude_candidates or shortest_path, ended
\* by a return or by an exception, leaves every layer (scores, order values,
\* retention time, is_true, is_blocked) and the caller's keyword arguments as
\* they were; within perform_reranking_of_candidates only is_blocked flags
\* change, only in the blocking step for the candidates of the path, and
\* only from false to true.
C19_SolverReadsOnly ==
  [][ /\ fn' \in {"shortest_path_exclude_candidates", "shortest_path"} => heap' = heap
      /\ kwargs' = kwargs
      /\ (pc = "loop" /\ pc' = "loop") =>
            /\ cand_data_c' = cand_data_c
            /\ \A n \in DOMAIN heap[cand_data_c] :
                  LET old == heap[cand_data_c][n]
                      new == heap'[cand_data_c][n]
                  IN  /\ DOMAIN new = DOMAIN old
                      /\ \A key \in (DOMAIN old) \ {"is_blocked"} : new[key] = old[key]
                      /\ DOMAIN new.is_blocked = DOMAIN old.is_blocked
                      /\ \A i \in DOMAIN old.is_blocked :
                            new.is_blocked[i] # old.is_blocked[i] =>
                              /\ ~old.is_blocked[i]
                              /\ new.is_blocked[i]
                              /\ k' = k + 1
                              /\ n \in Open
                              /\ i = paths'[k][Position(n)] ]_vars

\* two paths were found and blocked both candidates of the first of two
\* layers, for complete keyword arguments
C19_Witness ==
  /\ pc = "loop"
  /\ k = 2
  /\ len(heap[cand_data_c]) = 2
  /\ len(heap[cand_data_c][0].iokrscores) = 2
  /\ all(heap[cand_data_c][0].is_blocked)
  /\ weight_func_asserts(kwargs)
  /\ paths[0] # paths[1]

\* C20: within one call of perform_reranking_of_candidates the cost of path
\* m+1 is at least the cost of path m whenever both were found on the same
\* layers, that is, no layer became exhausted in between.
C20_CostsNonDecreasing ==
  pc = "returned" /\ fn = "perform_reranking_of_candidates" =>
     \A m \in DOMAIN result.lengths :
        ( /\ (m + 1) \in DOMAIN result.lengths
          /\ len(result.paths[m + 1]) = len(result.paths[m]) )
        => result.lengths[m + 1] >= result.lengths[m]

\* two paths over the same three layers, the second strictly longer
C20_Witness ==
  /\ pc = "returned"
  /\ fn = "perform_reranking_of_candidates"
  /\ len(cand_data) = MaxLayers
  /\ len(result.lengths) >= 2
  /\ len(result.paths[0]) = MaxLayers
  /\ len(result.paths[1]) = MaxLayers
  /\ result.lengths[1] > result.lengths[0]

====
